---- MODULE Spec2Model ----
(***************************************************************************)
(* Model of grab.spider.base.Spider: the task queue, the limit checks,     *)
(* add_task, the get_next_response generator and the run loop that feeds   *)
(* its results to the task handlers.                                       *)
(*                                                                         *)
(* Python's None is the empty tuple, a present value x is <<x>>.           *)
(***************************************************************************)
EXTENDS Integers, Sequences, FiniteSets, TLC

(* ----------------------------- bounds --------------------------------- *)

\* number of Task objects one run may create
MaxTasks == 2
\* largest thread_number / try limit / generator length a configuration draws
MaxThreads == 2
MaxTryLimit == 2
MaxGen == 2
\* longest sequence a generator handler yields
MaxItems == 2
\* add_task calls of a hand-written script under priority_mode 'random'
MaxRandomAdds == 1

(* ------------------------ program constants --------------------------- *)

DEFAULT_TASK_PRIORITY == 100
RANDOM_TASK_PRIORITY_LOW == 50
RANDOM_TASK_PRIORITY_HIGH == 100
RANDOM_TASK_PRIORITY_RANGE == RANDOM_TASK_PRIORITY_LOW..RANDOM_TASK_PRIORITY_HIGH

None == <<>>
Some(x) == <<x>>
Val(o) == o[1]

(* ------------------------------ urls ---------------------------------- *)

\* A url is its leading scheme text and the path segments after it.
Url(scheme, path) == [scheme |-> scheme, path |-> path]
AbsUrl == Url("http://", <<"a">>)
FtpUrl == Url("ftp://", <<"f">>)
RelUrl == Url("", <<"b">>)
BaseUrl == Url("https://", <<"site">>)
Urls == {AbsUrl, FtpUrl, RelUrl}

\* str.startswith on the scheme text of the url
startswith(url, prefix) == url.scheme = prefix

\* urlparse.urljoin for a path relative to the base
urljoin(base, url) == Url(base.scheme, base.path \o url.path)

(* ------------------------- the spider class --------------------------- *)

\* The Spider subclass under test: which task_<name>, task_raw_<name>,
\* task_<name>_fallback and data_<name> methods it defines.
TaskNames == {"initial", "page", "raw", "orphan"}
Handlers == {"initial", "page"}
RawHandlers == {"page", "raw"}
FallbackHandlers == {"page"}
DataHandlers == {"item"}

(* ------------------------------ tasks --------------------------------- *)

Ids == 1..MaxTasks

\* Grab's request configuration, the fields the spider reads or writes
GrabConfig(url, method) ==
    [url |-> url, method |-> method, proxy |-> None,
     common_headers |-> "h0", user_agent |-> Some("ua")]

\* Task(name, url=..., priority=..., task_try_count=..., disable_cache=...)
\* or, with post, Task(name, grab=g) for a Grab set up with post data
NewTask(name, url, priority, task_try_count, disable_cache, post) ==
    [name |-> name, url |-> url, priority |-> priority,
     network_try_count |-> 0, task_try_count |-> task_try_count,
     refresh_cache |-> FALSE, disable_cache |-> disable_cache,
     use_proxylist |-> TRUE, valid_status |-> {},
     grab_config |-> IF post THEN Some(GrabConfig(url, "POST")) ELSE None]

\* The tasks user code (initial_urls, task_generator, handlers) constructs
TaskTemplates ==
    {NewTask(n, AbsUrl, None, 0, FALSE, FALSE) : n \in TaskNames}
    \cup {NewTask("page", u, p, 0, FALSE, FALSE) :
             u \in {FtpUrl, RelUrl}, p \in {None, Some(60)}}
    \cup {NewTask("page", AbsUrl, None, c, FALSE, FALSE) : c \in 1..(MaxTryLimit + 1)}
    \cup {NewTask("initial", AbsUrl, Some(60), MaxTryLimit + 1, FALSE, FALSE)}
    \cup {NewTask("page", AbsUrl, None, 0, TRUE, FALSE),
          NewTask("page", AbsUrl, None, 0, FALSE, TRUE),
          NewTask("page", RelUrl, None, 0, FALSE, TRUE)}

(* ------------------------------ state --------------------------------- *)

VARIABLES
    \* constructor arguments and class attributes, fixed once chosen
    thread_number, network_try_limit, task_try_limit, priority_mode,
    only_cache, skip_generator, retry_rebuild_user_agent, base_url,
    initial_urls, config, cache_enabled, proxylist_enabled, proxy_auto_change,
    \* the spider's mutable state
    taskq_configured,        \* self.taskq is not None
    taskq,                   \* the queue's content: task id -> copies held
    tasks,                   \* the Task objects created so far, by id
    cache,                   \* urls the cache backend holds a response for
    transport,               \* id -> None or the fetch registered for the task
    proxy,                   \* self.proxy
    should_stop, task_generator_enabled,
    gen_left,                \* items the task generator has not produced yet
    counters, items,
    \* control
    pc,                      \* where run / get_next_response stands
    yielded,                 \* the value get_next_response has just yielded
    raised,                  \* the exception that left run, None if none
    shutdown_calls,          \* calls of self.shutdown()
    script_left,             \* add_task calls the calling script still makes
    \* observation
    hist,                    \* per task: pulls, limit checks, dispatches, fallbacks
    last                     \* what the last operation did

confVars == <<thread_number, network_try_limit, task_try_limit, priority_mode,
              only_cache, skip_generator, retry_rebuild_user_agent, base_url,
              initial_urls, config, cache_enabled, proxylist_enabled,
              proxy_auto_change>>
vars == <<confVars, taskq_configured, taskq, tasks, cache, transport, proxy,
          should_stop, task_generator_enabled, gen_left, counters, items, pc,
          yielded, raised, shutdown_calls, script_left, hist, last>>

ItemLists == {"too-many-task-tries", "too-many-network-tries",
              "task-could-not-be-added", "fatal"}
CounterNames == {"task", "request", "request-cache", "request-network",
                 "network-error", "error-valueerror", "error-fatalerror",
                 "error-spidererror", "error-nameerror",
                 "error-spidermisuseerror", "error-typeerror"}

\* SpiderStat.inc_count / add_item
inc_count(c, name) == [c EXCEPT ![name] = @ + 1]
add_item(it, list_name) == [it EXCEPT ![list_name] = @ + 1]

\* snapshot: the grab_config_backup last taken for the task
\* put: the priority the queue was last given for the task
\* results: the results of fetches of the task yielded by get_next_response
NoHist == [pulls |-> 0, checks |-> 0, dispatched |-> 0, fallback |-> 0,
           snapshot |-> None, put |-> None, results |-> 0]

\* The part of the spider that add_task and the limit checks read and write
\* (configured: self.taskq is not None)
Heap == [tasks |-> tasks, taskq |-> taskq, items |-> items, hist |-> hist,
         configured |-> taskq_configured]

\* user code constructs a Task object
Construct(h, template) ==
    [h EXCEPT !.tasks = Append(@, template), !.hist = Append(@, NoHist)]

(* ------------------------- limits and add_task ------------------------ *)

\* check_task_limits without its elif branch: network tries are not looked at
check_task_limits_no_network(h, id) ==
    LET task == h.tasks[id]
        task_tries == task.task_try_count > task_try_limit
    IN  [h |-> [h EXCEPT !.items = IF task_tries
                                   THEN add_item(@, "too-many-task-tries") ELSE @],
         is_valid |-> task.name \notin config /\ ~task_tries]

\* check_task_limits allowing one network try more than the limit
check_task_limits_one_more(h, id) ==
    LET task == h.tasks[id]
        disabled == task.name \in config
        task_tries == task.task_try_count > task_try_limit
        network_tries == ~task_tries /\ task.network_try_count > network_try_limit + 1
        it == IF task_tries THEN add_item(h.items, "too-many-task-tries")
              ELSE IF network_tries THEN add_item(h.items, "too-many-network-tries")
              ELSE h.items
    IN  [h |-> [h EXCEPT !.items = it],
         is_valid |-> ~disabled /\ ~task_tries /\ ~network_tries]

check_task_limits(h, id) ==
    LET task == h.tasks[id]
        disabled == task.name \in config
        task_tries == task.task_try_count > task_try_limit
        network_tries == ~task_tries /\ task.network_try_count > network_try_limit
        it == IF task_tries THEN add_item(h.items, "too-many-task-tries")
              ELSE IF network_tries THEN add_item(h.items, "too-many-network-tries")
              ELSE h.items
    IN  [h |-> [h EXCEPT !.items = it],
         is_valid |-> ~disabled /\ ~task_tries /\ ~network_tries]

check_task_limits_deprecated(h, id) ==
    LET call_fallback(r) ==
            [h |-> [r.h EXCEPT
                       !.hist[id].checks = @ + 1,
                       !.hist[id].fallback =
                           IF ~r.is_valid /\ r.h.tasks[id].name \in FallbackHandlers
                           THEN @ + 1 ELSE @],
             is_valid |-> r.is_valid]
    IN  call_fallback(check_task_limits(h, id))

\* generate_task_priority drawing from a range that is one off
generate_task_priority_shifted(rnd) ==
    IF priority_mode = "const" THEN DEFAULT_TASK_PRIORITY ELSE rnd + 1

\* rnd is what randint(*RANDOM_TASK_PRIORITY_RANGE) returns when it is called
generate_task_priority(rnd) ==
    IF priority_mode = "const" THEN DEFAULT_TASK_PRIORITY ELSE rnd

\* the values the random draw of one add_task call may take
RandomDraws ==
    IF priority_mode = "const" THEN {RANDOM_TASK_PRIORITY_LOW}
    ELSE RANDOM_TASK_PRIORITY_RANGE

\* add_task_handler that does not put the task into the queue
add_task_handler_lost(h, id) == h

\* add_task_handler putting the task twice
add_task_handler_twice(h, id) ==
    [h EXCEPT !.taskq[id] = @ + 2, !.hist[id].put = h.tasks[id].priority]

\* add_task_handler putting the task with the default priority
add_task_handler_default_priority(h, id) ==
    [h EXCEPT !.taskq[id] = @ + 1, !.hist[id].put = Some(DEFAULT_TASK_PRIORITY)]

\* self.taskq.put(task, task.priority)
add_task_handler(h, id) ==
    [h EXCEPT !.taskq[id] = @ + 1, !.hist[id].put = h.tasks[id].priority]

\* resolve_url that lets a relative url through when there is no base_url
resolve_url_unchecked(task) ==
    LET relative == /\ ~startswith(task.url, "http://")
                    /\ ~startswith(task.url, "https://")
                    /\ ~startswith(task.url, "ftp://")
    IN  IF ~relative \/ base_url = None THEN [task |-> task, raised |-> None]
        ELSE [task |-> [task EXCEPT !.url = urljoin(Val(base_url), task.url)],
              raised |-> None]

\* add_task's handling of the url: the task as changed, and whether the
\* SpiderMisuseError of line 536 is raised
resolve_url(task) ==
    LET relative == /\ ~startswith(task.url, "http://")
                    /\ ~startswith(task.url, "https://")
                    /\ ~startswith(task.url, "ftp://")
    IN  IF ~relative THEN [task |-> task, raised |-> None]
        ELSE IF base_url = None
        THEN [task |-> task, raised |-> Some("SpiderMisuseError")]
        ELSE LET url == urljoin(Val(base_url), task.url)
             IN  [task |-> [task EXCEPT !.url = url,
                                        !.grab_config =
                                            IF @ # None
                                            THEN Some([Val(@) EXCEPT !.url = url])
                                            ELSE @],
                  raised |-> None]

\* The result names the exception add_task raises, None when it returns.
add_task(h, id, rnd) ==
    IF ~h.configured
    THEN [h |-> h, is_valid |-> FALSE, raised |-> Some("SpiderMisuseError")]
    ELSE
    LET t0 == h.tasks[id]
        t1 == IF t0.priority = None
              THEN [t0 EXCEPT !.priority = Some(generate_task_priority(rnd))]
              ELSE t0
        put(r) == [h |-> IF r.is_valid THEN add_task_handler(r.h, id) ELSE r.h,
                   is_valid |-> r.is_valid, raised |-> None]
        resolved(res) ==
            IF res.raised # None
            THEN [h |-> [h EXCEPT !.tasks[id] = res.task], is_valid |-> FALSE,
                  raised |-> res.raised]
            ELSE put(check_task_limits_deprecated(
                         [h EXCEPT !.tasks[id] = res.task], id))
    IN  resolved(resolve_url(t1))

(* ------------------------------- Init --------------------------------- *)

\* The state Spider.__init__ leaves, for whatever configuration was chosen
Constructed ==
    /\ taskq_configured = FALSE
    /\ taskq = [i \in Ids |-> 0]
    /\ tasks = <<>>
    /\ transport = [i \in Ids |-> None]
    /\ should_stop = FALSE
    /\ task_generator_enabled = FALSE
    /\ counters = [c \in CounterNames |-> 0]
    /\ items = [l \in ItemLists |-> 0]
    /\ pc = "init"
    /\ yielded = None
    /\ raised = None
    /\ shutdown_calls = 0
    /\ hist = <<>>
    /\ last = [op |-> "init"]

(* ------------------- transport, grab, cache, proxies ------------------ *)

\* MulticurlTransport: a fetch stays registered from process_task until
\* iterate_results hands its result out
active_task_number == Cardinality({i \in Ids : transport[i] # None})
ready_for_task == active_task_number < thread_number

\* what Grab.common_headers() may build, and what ProxyList.get_random() may pick
CommonHeaders == {"h1", "h2"}
Proxies == {"p1", "p2"}

\* HTTP codes a completed fetch may carry
Codes == {200, 404, 500}

valid_response_code(code, task) ==
    code < 400 \/ code = 404 \/ code \in task.valid_status

qsize == LET RECURSIVE sum(_)
             sum(n) == IF n = 0 THEN 0 ELSE taskq[n] + sum(n - 1)
         IN  sum(MaxTasks)

h_qsize(h) == LET RECURSIVE sum(_)
                  sum(n) == IF n = 0 THEN 0 ELSE h.taskq[n] + sum(n - 1)
              IN  sum(MaxTasks)

\* taskq.get: one of the queued tasks of least priority value
QueueHeads ==
    {i \in Ids : /\ taskq[i] > 0
                 /\ \A j \in Ids : taskq[j] > 0 =>
                        Val(hist[i].put) <= Val(hist[j].put)}

\* count_pull that leaves network_try_count alone
count_pull_uncounted(task) ==
    [task EXCEPT !.task_try_count = IF @ = 0 THEN 1 ELSE @]

\* counting that adds a task try at every pull
count_pull_as_task_try(task) ==
    [task EXCEPT !.network_try_count = @ + 1, !.task_try_count = @ + 1]

\* lines 339-341: the counters of a task just taken from the queue
count_pull(task) ==
    [task EXCEPT !.network_try_count = @ + 1,
                 !.task_try_count = IF @ = 0 THEN 1 ELSE @]

\* lines 347-357: the Grab built for a pulled task, given the common headers
\* generated for it; grab_config_backup is a dump of this configuration
build_grab(task, headers) ==
    LET loaded == IF task.grab_config # None THEN Val(task.grab_config)
                  ELSE [url |-> task.url, method |-> "GET", proxy |-> None,
                        common_headers |-> "h0", user_agent |-> None]
    IN  [loaded EXCEPT !.common_headers = headers,
                       !.user_agent = IF retry_rebuild_user_agent THEN None ELSE @]

\* cache_allowed_for_task taking an absent refresh_cache for True
cache_allowed_for_task_refreshing(task, grab) ==
    ~(\/ ~cache_enabled
      \/ ~task.refresh_cache
      \/ task.disable_cache
      \/ grab.method # "GET")

cache_allowed_for_task(task, grab) ==
    ~(\/ ~cache_enabled
      \/ task.refresh_cache
      \/ task.disable_cache
      \/ grab.method # "GET")

\* query_cache: None, or the result built from the cache item
query_cache(task_id, grab, grab_config_backup) ==
    IF grab.url \notin cache THEN None
    ELSE Some([kind |-> "result", ok |-> TRUE, grab |-> grab,
               grab_config_backup |-> grab_config_backup, task |-> task_id,
               code |-> 200, from |-> "cache"])

\* change_proxy: the proxy the spider keeps and the one set up on the grab,
\* picked being what get_random() returns
change_proxy(task, grab, picked) ==
    IF task.use_proxylist /\ proxylist_enabled
    THEN LET p == IF proxy_auto_change THEN Some(picked) ELSE proxy
         IN  [proxy |-> p,
              grab |-> IF p # None THEN [grab EXCEPT !.proxy = p] ELSE grab]
    ELSE [proxy |-> proxy, grab |-> grab]

\* is_valid_for_cache without the test of the response code
is_valid_for_cache_any_code(res) ==
    /\ res.ok
    /\ cache_enabled
    /\ res.grab.method = "GET"
    /\ ~tasks[res.task].disable_cache

is_valid_for_cache(res) ==
    /\ res.ok
    /\ cache_enabled
    /\ res.grab.method = "GET"
    /\ ~tasks[res.task].disable_cache
    /\ valid_response_code(res.code, tasks[res.task])

StopSignal == [kind |-> "stop"]

(* --------------------------- task generator --------------------------- *)

\* the tasks a task_generator yields
GenTemplates ==
    IF cache_enabled
    THEN {NewTask("page", AbsUrl, None, 0, FALSE, FALSE),
          NewTask("page", AbsUrl, None, 0, TRUE, FALSE),
          NewTask("page", AbsUrl, None, 0, FALSE, TRUE),
          [NewTask("page", AbsUrl, None, 0, FALSE, FALSE)
              EXCEPT !.valid_status = {500}]}
    ELSE {NewTask("page", AbsUrl, None, 0, FALSE, FALSE),
          NewTask("orphan", AbsUrl, None, 0, FALSE, FALSE),
          NewTask("raw", AbsUrl, Some(60), 0, FALSE, FALSE),
          NewTask("page", RelUrl, None, 0, FALSE, FALSE),
          NewTask("page", AbsUrl, None, MaxTryLimit + 1, FALSE, FALSE)}

\* add_task for each task of a sequence, until one call raises
RECURSIVE add_each(_, _, _)
add_each(h, templates, rnds) ==
    IF templates = <<>> THEN [h |-> h, raised |-> None]
    ELSE LET go_on(r) ==
                 IF r.raised # None THEN [h |-> r.h, raised |-> r.raised]
                 ELSE add_each(r.h, Tail(templates), Tail(rnds))
         IN  go_on(add_task(Construct(h, Head(templates)), Len(h.tasks) + 1,
                            Head(rnds)))

\* how many items one process_task_generator call takes from the generator
generator_take(h, enabled, left) ==
    LET min_limit == thread_number * 2
    IN  IF enabled /\ h_qsize(h) < min_limit
        THEN IF min_limit - h_qsize(h) <= left THEN min_limit - h_qsize(h) ELSE left
        ELSE 0

\* process_task_generator, templates being the items the generator yields to
\* this call: the generator is disabled when it runs out before the call has
\* taken min_limit - qsize items
process_task_generator(h, enabled, left, templates, rnds) ==
    LET min_limit == thread_number * 2
        added(r) ==
            [h |-> r.h, raised |-> r.raised,
             enabled |-> enabled /\ ~(/\ h_qsize(h) < min_limit
                                      /\ r.raised = None
                                      /\ left < min_limit - h_qsize(h)),
             left |-> left - (Len(r.h.tasks) - Len(h.tasks))]
    IN  added(add_each(h, templates, rnds))

(* -------------------------------- run --------------------------------- *)

\* shutdown called after the loop instead of in a finally clause
finally_on_return(exc, calls) == IF exc = None THEN calls + 1 ELSE calls

\* run's try ... finally: self.shutdown() is called however the try block ends
finally(exc, calls) == calls + 1

Leave(exc) ==
    /\ pc' = "done"
    /\ raised' = exc
    /\ shutdown_calls' = finally(exc, shutdown_calls)

\* the heap h becomes the spider's state
Commit(h) ==
    /\ tasks' = h.tasks
    /\ taskq' = h.taskq
    /\ items' = h.items
    /\ hist' = h.hist

\* load_initial_urls: Task('initial', url=url) for each url of initial_urls
InitialTasks ==
    [i \in 1..Len(initial_urls) |->
        NewTask("initial", initial_urls[i], None, 0, FALSE, FALSE)]

\* lines 244-251: the queue is set up and the first tasks are loaded
Start ==
    /\ pc = "init"
    /\ taskq_configured' = TRUE
    /\ last' = [op |-> "start"]
    /\ IF skip_generator
       THEN /\ pc' = "top"
            /\ UNCHANGED <<tasks, taskq, items, hist, task_generator_enabled,
                           gen_left, raised, shutdown_calls>>
       ELSE \E rnds0 \in [1..Len(initial_urls) -> RandomDraws] :
            \E r0 \in {add_each([Heap EXCEPT !.configured = TRUE],
                                InitialTasks, rnds0)} :
            IF r0.raised # None
            THEN /\ Commit(r0.h)
                 /\ task_generator_enabled' = TRUE
                 /\ Leave(r0.raised)
                 /\ UNCHANGED gen_left
            ELSE \E n \in {generator_take(r0.h, TRUE, gen_left)} :
                 /\ Len(initial_urls) + n <= MaxTasks
                 /\ \E templates \in [1..n -> GenTemplates],
                       rnds \in [1..n -> RandomDraws] :
                    \E g \in {process_task_generator(r0.h, TRUE, gen_left,
                                                     templates, rnds)} :
                        /\ Commit(g.h)
                        /\ task_generator_enabled' = g.enabled
                        /\ gen_left' = g.left
                        /\ IF g.raised # None THEN Leave(g.raised)
                           ELSE /\ pc' = "top"
                                /\ UNCHANGED <<raised, shutdown_calls>>
    /\ UNCHANGED <<confVars, cache, transport, proxy, should_stop, counters,
                   yielded, script_left>>

\* a task sent to the network whatever only_cache says
task_outcome_networked(is_valid, cache_result) ==
    IF ~is_valid THEN "rejected"
    ELSE IF cache_result # None THEN "cache"
    ELSE "network"

\* lines 343-377: what becomes of a pulled task: rejected by the limits,
\* answered from the cache, skipped under only_cache, or given to the
\* transport
task_outcome(is_valid, cache_result) ==
    IF ~is_valid THEN "rejected"
    ELSE IF cache_result # None THEN "cache"
    ELSE IF only_cache THEN "skipped" ELSE "network"

\* a task pulled whatever the transport says
transport_has_free_resources_unasked == TRUE

\* line 321: a task is pulled only if the transport is ready for one
transport_has_free_resources == ready_for_task

\* the stop signal given while one fetch is still in the transport
time_to_stop_one_left(active) == active <= 1

\* the stop signal given without asking the transport
time_to_stop_unasked(active) == TRUE

\* line 332: nothing queued and nothing in the transport
time_to_stop(active) == active = 0

\* lines 319-379: one pass of the generator's loop up to transport.select,
\* at most one task pulled
Fill ==
    /\ pc = "top"
    /\ IF ~transport_has_free_resources
       THEN /\ pc' = "select"
            /\ last' = [op |-> "fill", qsize |-> qsize,
                        active |-> active_task_number, outcome |-> "not_ready"]
            /\ UNCHANGED <<tasks, taskq, items, hist, counters, yielded,
                           transport, proxy>>
       ELSE IF qsize = 0
       THEN /\ IF time_to_stop(active_task_number)
               THEN yielded' = Some(StopSignal) /\ pc' = "yield"
               ELSE yielded' = yielded /\ pc' = "select"
            /\ last' = [op |-> "fill", qsize |-> qsize,
                        active |-> active_task_number, outcome |-> "empty"]
            /\ UNCHANGED <<tasks, taskq, items, hist, counters, transport, proxy>>
       ELSE \E id \in QueueHeads, headers \in CommonHeaders,
               picked \in IF proxylist_enabled /\ proxy_auto_change
                          THEN Proxies ELSE {"p1"} :
            \E r \in {check_task_limits_deprecated(
                         [Heap EXCEPT
                             !.tasks[id] = count_pull(@),
                             !.taskq[id] = @ - 1,
                             !.hist[id].pulls = @ + 1], id)} :
            \E grab \in {build_grab(r.h.tasks[id], headers)} :
            \E cache_result \in {IF cache_allowed_for_task(r.h.tasks[id], grab)
                                 THEN query_cache(id, grab, grab) ELSE None} :
            \E cp \in {change_proxy(r.h.tasks[id], grab, picked)} :
            \E outcome \in {task_outcome(r.is_valid, cache_result)} :
                /\ tasks' = r.h.tasks /\ taskq' = r.h.taskq /\ items' = r.h.items
                /\ hist' = IF outcome = "rejected" THEN r.h.hist
                           ELSE [r.h.hist EXCEPT
                                    ![id].snapshot = Some(grab),
                                    ![id].dispatched =
                                        IF outcome = "network" THEN @ + 1 ELSE @]
                /\ counters' =
                       IF outcome = "cache"
                       THEN inc_count(inc_count(counters, "request"), "request-cache")
                       ELSE IF outcome = "network"
                       THEN inc_count(counters, "request-network")
                       ELSE counters
                /\ yielded' = IF outcome = "cache" THEN cache_result ELSE yielded
                /\ transport' =
                       IF outcome = "network"
                       THEN [transport EXCEPT ![id] =
                                Some([grab |-> cp.grab, done |-> FALSE,
                                      grab_config_backup |-> grab])]
                       ELSE transport
                /\ proxy' = IF outcome = "network" THEN cp.proxy ELSE proxy
                /\ pc' = CASE outcome = "rejected" -> "top"
                           [] outcome = "cache" -> "yield"
                           [] OTHER -> "select"
                /\ last' = [op |-> "fill", qsize |-> qsize,
                            active |-> active_task_number, outcome |-> outcome,
                            id |-> id, net |-> counters["request-network"],
                            dispatched |-> hist[id].dispatched,
                            prev |-> hist[id].snapshot]
    /\ UNCHANGED <<confVars, taskq_configured, cache, should_stop,
                   task_generator_enabled, gen_left, raised, shutdown_calls,
                   script_left>>

\* lines 381-385: transport.select and process_handlers let some of the
\* fetches in flight complete
Select ==
    /\ pc = "select"
    /\ \E finished \in SUBSET {i \in Ids : transport[i] # None /\ ~Val(transport[i]).done} :
        transport' = [i \in Ids |->
                         IF i \in finished
                         THEN Some([Val(transport[i]) EXCEPT !.done = TRUE])
                         ELSE transport[i]]
    /\ pc' = "drain"
    /\ last' = [op |-> "select"]
    /\ UNCHANGED <<confVars, taskq_configured, taskq, tasks, cache, proxy,
                   should_stop, task_generator_enabled, gen_left, counters,
                   items, yielded, raised, shutdown_calls, script_left, hist>>

\* how a finished fetch ended: a network error, or a response with its code
FetchOutcomes == {[ok |-> FALSE, code |-> 0]} \cup {[ok |-> TRUE, code |-> c] : c \in Codes}

\* lines 391-396: the next result of transport.iterate_results is saved to
\* the cache if it is valid for it and is yielded; with none left the
\* generator's loop starts over
Drain ==
    /\ pc = "drain"
    /\ LET ready == {i \in Ids : transport[i] # None /\ Val(transport[i]).done}
       IN  IF ready = {}
           THEN /\ pc' = "top"
                /\ last' = [op |-> "drain", outcome |-> "empty"]
                /\ UNCHANGED <<transport, cache, yielded, hist>>
           ELSE \E id \in ready, out \in FetchOutcomes :
                LET res == [kind |-> "result", ok |-> out.ok,
                            grab |-> Val(transport[id]).grab,
                            grab_config_backup |-> Val(transport[id]).grab_config_backup,
                            task |-> id, code |-> out.code, from |-> "network"]
                IN  /\ transport' = [transport EXCEPT ![id] = None]
                    /\ cache' = IF is_valid_for_cache(res)
                                THEN cache \cup {tasks[id].url} ELSE cache
                    /\ yielded' = Some(res)
                    /\ hist' = [hist EXCEPT ![id].results = @ + 1]
                    /\ pc' = "yield"
                    /\ last' = [op |-> "drain", outcome |-> "result", id |-> id,
                                saved |-> is_valid_for_cache(res)]
    /\ UNCHANGED <<confVars, taskq_configured, taskq, tasks, proxy, should_stop,
                   task_generator_enabled, gen_left, counters, items, raised,
                   shutdown_calls, script_left>>

(* ----------------------- handlers and their results ------------------ *)

\* the tasks a handler returns or yields
HandlerTemplates ==
    {NewTask("page", AbsUrl, None, 0, FALSE, FALSE),
     NewTask("page", RelUrl, None, 0, FALSE, FALSE),
     NewTask("page", AbsUrl, None, MaxTryLimit + 1, FALSE, FALSE)}

\* What running a handler gives, one event after the other: the value it
\* returns or the values its generator yields (None, a Task, a Data item whose
\* data_<name> handler may raise, anything else), ended by the exception it
\* raises if it raises one.
ItemNone == [kind |-> "none"]
ItemOther == [kind |-> "other"]
ItemTask(template) == [kind |-> "task", template |-> template]
ItemData(name, exc) == [kind |-> "data", name |-> name, exc |-> exc]
Raise(exc) == [kind |-> "raise", exc |-> exc]

HandlerItems(free) ==
    {ItemNone, ItemOther, ItemData("lost", None)}
    \cup {ItemData("item", e) : e \in {None, Some("ValueError"), Some("FatalError")}}
    \cup (IF free > 0 THEN {ItemTask(t) : t \in HandlerTemplates} ELSE {})

RECURSIVE HandlerOutcomes(_, _)
HandlerOutcomes(n, free) ==
    IF n = 0 THEN {<<>>}
    ELSE {<<Raise(e)>> : e \in {"ValueError", "FatalError"}}
         \cup {<<i>> : i \in HandlerItems(free)}
         \cup (IF n = 1 THEN {}
               ELSE UNION {{<<i>> \o rest :
                               rest \in HandlerOutcomes(n - 1,
                                   IF i.kind = "task" THEN free - 1 ELSE free)} :
                           i \in HandlerItems(free)})

ErrorCounter(exc) ==
    CASE exc = "ValueError" -> "error-valueerror"
      [] exc = "FatalError" -> "error-fatalerror"
      [] exc = "SpiderError" -> "error-spidererror"
      [] exc = "NameError" -> "error-nameerror"
      [] exc = "SpiderMisuseError" -> "error-spidermisuseerror"
      [] exc = "TypeError" -> "error-typeerror"

\* process_handler_error that forgets the fatal item
process_handler_error_unrecorded(st, exc) ==
    [st |-> [st EXCEPT !.counters = inc_count(@, ErrorCounter(exc))],
     reraise |-> exc = "FatalError"]

\* st is the heap together with the counters.  The error is counted and
\* recorded; reraise tells whether the exception goes on (line 654).
process_handler_error(st, exc) ==
    [st |-> [st EXCEPT !.counters = inc_count(@, ErrorCounter(exc)),
                       !.h.items = add_item(@, "fatal")],
     reraise |-> exc = "FatalError"]

\* exc is the exception that leaves process_handler_result, None if none
process_handler_result(st, result, rnd) ==
    LET added(r) ==
            IF r.raised # None
            THEN [st |-> [st EXCEPT !.h = r.h], exc |-> r.raised]
            ELSE IF ~r.is_valid
            THEN [st |-> [st EXCEPT !.h = [r.h EXCEPT !.items =
                             add_item(@, "task-could-not-be-added")]],
                  exc |-> None]
            ELSE [st |-> [st EXCEPT !.h = r.h], exc |-> None]
        failed(e) == [st |-> e.st,
                      exc |-> IF e.reraise THEN result.exc ELSE None]
    IN  CASE result.kind = "task" ->
                added(add_task(Construct(st.h, result.template),
                               Len(st.h.tasks) + 1, rnd))
          [] result.kind = "data" ->
                IF result.name \notin DataHandlers
                THEN [st |-> st, exc |-> Some("NameError")]
                ELSE IF result.exc = None THEN [st |-> st, exc |-> None]
                ELSE failed(process_handler_error(st, Val(result.exc)))
          [] result.kind = "none" -> [st |-> st, exc |-> None]
          [] OTHER -> [st |-> st, exc |-> Some("SpiderError")]

\* a loop that asks the handler for its first item only
run_handler_first_only(st, events, rnds) ==
    LET only(r) == [st |-> r.st, exc |-> r.exc, rest |-> Tail(events)]
    IN  IF events = <<>> THEN [st |-> st, exc |-> None, rest |-> <<>>]
        ELSE IF Head(events).kind = "raise"
        THEN [st |-> st, exc |-> Some(Head(events).exc), rest |-> Tail(events)]
        ELSE only(process_handler_result(st, Head(events), Head(rnds)))

\* lines 461-466: the handler runs and what it produces is processed item by
\* item until an exception leaves the try block; rest is what was not reached
RECURSIVE run_handler(_, _, _)
run_handler(st, events, rnds) ==
    LET next(r) ==
            IF r.exc # None
            THEN [st |-> r.st, exc |-> r.exc, rest |-> Tail(events)]
            ELSE run_handler(r.st, Tail(events), Tail(rnds))
    IN  IF events = <<>> THEN [st |-> st, exc |-> None, rest |-> <<>>]
        ELSE IF Head(events).kind = "raise"
        THEN [st |-> st, exc |-> Some(Head(events).exc), rest |-> Tail(events)]
        ELSE next(process_handler_result(st, Head(events), Head(rnds)))

\* retry_task that does not ask for the cache to be refreshed
retry_task_unrefreshed(task, res) ==
    [task EXCEPT !.grab_config = Some(res.grab_config_backup)]

\* retry_task restoring the configuration of the Grab that made the attempt
retry_task_mutated(task, res) ==
    [task EXCEPT !.refresh_cache = TRUE,
                 !.grab_config = Some(res.grab)]

\* lines 478-485: the task as it is put back after a failed fetch
retry_task(task, res) ==
    [task EXCEPT !.refresh_cache = TRUE,
                 !.grab_config = Some(res.grab_config_backup)]

\* process_handler that does not listen to the raw handler
process_handler_deaf(task, go) == TRUE

\* lines 444-449: the raw handler, if there is one, says whether the
\* response is processed further
process_handler(task, go) == task.name \in RawHandlers => go

\* go is what the raw handler returns, events what running the handler gives.
\* exc is the exception that leaves process_response, caught the one its
\* except clause caught, rest the events the handler was never asked for.
process_response(st, res, go, events, rnds) ==
    LET task == st.h.tasks[res.task]
        quiet == [st |-> st, exc |-> None, caught |-> None, rest |-> <<>>,
                  path |-> "handler"]
        except(r, e) ==
            [st |-> e.st, exc |-> IF e.reraise THEN r.exc ELSE None,
             caught |-> r.exc, rest |-> r.rest, path |-> "handler"]
        ran(r) ==
            IF r.exc = None THEN [quiet EXCEPT !.st = r.st, !.rest = r.rest]
            ELSE except(r, process_handler_error(r.st, Val(r.exc)))
        readded(r) ==
            [st |-> [h |-> r.h,
                     counters |-> inc_count(st.counters, "network-error")],
             exc |-> r.raised, caught |-> None, rest |-> events,
             path |-> "retry"]
    IN  IF ~process_handler(task, go)
        THEN [quiet EXCEPT !.rest = events, !.path = "vetoed"]
        ELSE IF res.ok /\ valid_response_code(res.code, task)
        THEN IF task.name \notin Handlers
             THEN [quiet EXCEPT !.exc = Some("AttributeError"),
                                !.caught = Some("TypeError"), !.rest = events]
             ELSE ran(run_handler(st, events, rnds))
        ELSE IF network_try_limit > 0
        THEN readded(add_task([st.h EXCEPT !.tasks[res.task] = retry_task(task, res)],
                              res.task, Head(rnds)))
        ELSE [quiet EXCEPT !.st.counters = inc_count(@, "network-error"),
                           !.rest = events, !.path = "failed"]

\* lines 257-261: the stop signal or a stop request ends the loop
Break ==
    /\ pc = "yield"
    /\ Val(yielded).kind = "stop" \/ should_stop
    /\ Leave(None)
    /\ last' = [op |-> "break",
                why |-> IF Val(yielded).kind = "stop" THEN "stop_signal"
                        ELSE "should_stop"]
    /\ UNCHANGED <<confVars, taskq_configured, taskq, tasks, cache, transport,
                   proxy, should_stop, task_generator_enabled, gen_left,
                   counters, items, yielded, script_left, hist>>

\* lines 263-266: the queue is topped up before the result is looked at
Refill ==
    /\ pc = "yield"
    /\ Val(yielded).kind = "result" /\ ~should_stop
    /\ \E n \in {generator_take(Heap, task_generator_enabled, gen_left)} :
        /\ Len(tasks) + n <= MaxTasks
        /\ \E templates \in [1..n -> GenTemplates], rnds \in [1..n -> RandomDraws] :
           \E g \in {process_task_generator(Heap, task_generator_enabled,
                                            gen_left, templates, rnds)} :
               /\ Commit(g.h)
               /\ task_generator_enabled' = g.enabled
               /\ gen_left' = g.left
               /\ IF g.raised # None THEN Leave(g.raised)
                  ELSE pc' = "route" /\ UNCHANGED <<raised, shutdown_calls>>
    /\ last' = [op |-> "refill"]
    /\ UNCHANGED <<confVars, taskq_configured, cache, transport, proxy,
                   should_stop, counters, yielded, script_left>>

\* what running the handler of the yielded result would give
RouteEvents(res, go) ==
    IF /\ tasks[res.task].name \in Handlers
       /\ res.ok /\ valid_response_code(res.code, tasks[res.task])
    THEN HandlerOutcomes(MaxItems, MaxTasks - Len(tasks)
                             - (IF task_generator_enabled THEN gen_left ELSE 0))
    ELSE {<<>>}

\* how many of the first n events are Data items whose data handler raises
\* a ValueError
DataErrors(events, n) ==
    Cardinality({i \in 1..n : /\ events[i].kind = "data"
                              /\ events[i].name \in DataHandlers
                              /\ events[i].exc = Some("ValueError")})

\* lines 269-298 and, when the generator is resumed, line 397: the result is
\* counted and handed to the handlers of its task
Route ==
    /\ pc = "route"
    /\ \E res \in {Val(yielded)} :
       \E go \in IF tasks[res.task].name \in RawHandlers THEN BOOLEAN ELSE {TRUE} :
       \E events \in RouteEvents(res, go) :
       \E rnds \in [1..(IF events = <<>> THEN 1 ELSE Len(events)) -> RandomDraws] :
       \E p \in {IF tasks[res.task].name \notin Handlers \cup RawHandlers
                 THEN [st |-> [h |-> Heap, counters |-> inc_count(counters, "task")],
                       exc |-> Some("SpiderError"), caught |-> None,
                       rest |-> events, path |-> "no_handler"]
                 ELSE process_response(
                          [h |-> Heap, counters |-> inc_count(counters, "task")],
                          res, go, events, rnds)} :
           /\ Commit(p.st.h)
           /\ last' = [op |-> "route", id |-> res.task, path |-> p.path,
                       caught |-> p.caught, ok |-> res.ok, code |-> res.code, go |-> go,
                       inner |-> DataErrors(events, Len(events) - Len(p.rest)),
                       errors |-> counters, fatal |-> items["fatal"],
                       ntasks |-> Len(tasks), taskq |-> taskq,
                       events |-> events, rest |-> p.rest]
           /\ IF p.exc # None
              THEN /\ Leave(p.exc)
                   /\ counters' = p.st.counters
                   /\ UNCHANGED yielded
              ELSE /\ pc' = IF res.from = "cache" THEN "select" ELSE "drain"
                   /\ counters' = IF res.from = "cache" THEN p.st.counters
                                  ELSE inc_count(p.st.counters, "request")
                   /\ yielded' = None
                   /\ UNCHANGED <<raised, shutdown_calls>>
    /\ UNCHANGED <<confVars, taskq_configured, cache, transport, proxy,
                   should_stop, task_generator_enabled, gen_left, script_left>>

\* stop(), from the SIGUSR2 handler or from user code
stop ==
    /\ pc \in {"top", "select", "drain", "yield", "route"}
    /\ ~should_stop
    /\ should_stop' = TRUE
    /\ last' = [op |-> "stop"]
    /\ UNCHANGED <<confVars, taskq_configured, taskq, tasks, cache, transport,
                   proxy, task_generator_enabled, gen_left, counters, items, pc,
                   yielded, raised, shutdown_calls, script_left, hist>>

\* lines 300-303: ^C while run is in its loop
KeyboardInterrupt ==
    /\ pc \in {"top", "select", "drain", "yield", "route"}
    /\ Leave(Some("KeyboardInterrupt"))
    /\ last' = [op |-> "interrupt"]
    /\ UNCHANGED <<confVars, taskq_configured, taskq, tasks, cache, transport,
                   proxy, should_stop, task_generator_enabled, gen_left,
                   counters, items, yielded, script_left, hist>>

\* one initial url, no task generator, one thread, one try
DefaultConf ==
    [thread_number |-> 1, network_try_limit |-> 1,
     task_try_limit |-> 1, only_cache |-> FALSE,
     skip_generator |-> FALSE, retry_rebuild_user_agent |-> TRUE,
     base_url |-> Some(BaseUrl), initial_urls |-> <<AbsUrl>>, config |-> {},
     cache_enabled |-> FALSE, cache |-> {}, proxylist_enabled |-> FALSE,
     gen_left |-> 0]

\* The configurations a run starts from: the try limits, the number of
\* threads with a task generator of MaxGen tasks, a task name disabled by
\* config, the cache, the proxy list, and the sources of the first tasks.
Configs ==
    {[DefaultConf EXCEPT !.network_try_limit = n, !.task_try_limit = k] :
        n \in 0..MaxTryLimit, k \in 0..MaxTryLimit}
    \cup {[DefaultConf EXCEPT !.thread_number = t, !.initial_urls = <<>>,
                              !.gen_left = MaxGen] : t \in 1..MaxThreads}
    \cup {[DefaultConf EXCEPT !.config = {"initial"}]}
    \cup {[DefaultConf EXCEPT !.cache_enabled = TRUE, !.cache = c, !.only_cache = o,
                              !.initial_urls = <<>>, !.gen_left = MaxGen - 1] :
             c \in {{}, {AbsUrl}}, o \in BOOLEAN}
    \cup {[DefaultConf EXCEPT !.cache_enabled = TRUE,
                              !.network_try_limit = MaxTryLimit,
                              !.gen_left = MaxGen - 1]}
    \cup {[DefaultConf EXCEPT !.cache_enabled = TRUE, !.only_cache = TRUE,
                              !.initial_urls = <<>>, !.gen_left = MaxGen + 1]}
    \cup {[DefaultConf EXCEPT !.proxylist_enabled = TRUE,
                              !.network_try_limit = MaxTryLimit,
                              !.retry_rebuild_user_agent = r] : r \in BOOLEAN}
    \cup {[DefaultConf EXCEPT !.base_url = b, !.initial_urls = i, !.gen_left = g,
                              !.skip_generator = s] :
             b \in {None, Some(BaseUrl)}, i \in {<<>>, <<AbsUrl>>, <<RelUrl>>},
             g \in {0, MaxGen - 1}, s \in BOOLEAN}

\* the state after construction with one of the configurations cs
InitFrom(cs) ==
    /\ Constructed
    /\ \E c \in cs :
        /\ thread_number = c.thread_number
        /\ network_try_limit = c.network_try_limit
        /\ task_try_limit = c.task_try_limit
        /\ only_cache = c.only_cache
        /\ skip_generator = c.skip_generator
        /\ retry_rebuild_user_agent = c.retry_rebuild_user_agent
        /\ base_url = c.base_url
        /\ initial_urls = c.initial_urls
        /\ config = c.config
        /\ cache_enabled = c.cache_enabled
        /\ cache = c.cache
        /\ proxylist_enabled = c.proxylist_enabled
        /\ proxy_auto_change = c.proxylist_enabled
        /\ gen_left = c.gen_left
    /\ priority_mode = "const"
    /\ proxy = None
    /\ script_left = 0

Init == InitFrom(Configs)

Next == Start \/ Fill \/ Select \/ Drain \/ Break \/ Refill \/ Route \/ stop
        \/ KeyboardInterrupt

Spec == Init /\ [][Next]_vars

\* both try limits above 0, retries allowed, one initial url, the default
\* (empty) task generator, handlers that may construct more tasks
LiveConfigs == {[DefaultConf EXCEPT !.network_try_limit = MaxTryLimit]}

InitLive == InitFrom(LiveConfigs)

\* transport.select during which one fetch at least completes
SelectSome ==
    /\ Select
    /\ \E i \in Ids : /\ transport[i] # None /\ ~Val(transport[i]).done
                       /\ Val(transport'[i]).done

\* run is one thread that goes on until it returns (weak fairness of its
\* steps); every fetch in flight completes in the end (strong fairness of a
\* select that completes one: it is enabled once per pass of the loop).
\* stop() and ^C come from outside and need not happen.
SpecLive ==
    /\ InitLive /\ [][Next]_vars
    /\ WF_vars(Start \/ Fill \/ Select \/ Drain \/ Break \/ Refill \/ Route)
    /\ SF_vars(SelectSome)

(* --------------- a script that fills the queue by hand ---------------- *)

setup_queue ==
    /\ pc = "init"
    /\ ~taskq_configured
    /\ taskq_configured' = TRUE
    /\ last' = [op |-> "setup_queue"]
    /\ UNCHANGED <<confVars, taskq, tasks, cache, transport, proxy, should_stop,
                   task_generator_enabled, gen_left, counters, items, pc,
                   yielded, raised, shutdown_calls, script_left, hist>>

\* bot.add_task(Task(...)) called from outside run
UserAddTask ==
    /\ pc = "init"
    /\ script_left > 0
    /\ Len(tasks) < MaxTasks
    /\ \E template \in TaskTemplates, rnd \in RandomDraws :
       \E r \in {add_task(Construct(Heap, template), Len(tasks) + 1, rnd)} :
           /\ Commit(r.h)
           /\ last' = [op |-> "add_task", id |-> Len(tasks) + 1,
                       template |-> template, configured |-> taskq_configured,
                       taskq |-> taskq, is_valid |-> r.is_valid,
                       raised |-> r.raised]
    /\ script_left' = script_left - 1
    /\ UNCHANGED <<confVars, taskq_configured, cache, transport, proxy,
                   should_stop, task_generator_enabled, gen_left, counters, pc,
                   yielded, raised, shutdown_calls>>

InitAddTask ==
    /\ Constructed
    /\ thread_number = MaxThreads
    /\ priority_mode \in {"random", "const"}
    /\ network_try_limit = MaxTryLimit
    /\ task_try_limit \in IF priority_mode = "random" THEN {MaxTryLimit}
                          ELSE 0..MaxTryLimit
    /\ only_cache = FALSE
    /\ skip_generator = FALSE
    /\ retry_rebuild_user_agent = TRUE
    /\ base_url \in {None, Some(BaseUrl)}
    /\ initial_urls = <<>>
    /\ config \in IF priority_mode = "random" THEN {{}} ELSE {{}, {"initial"}}
    /\ cache_enabled = FALSE
    /\ cache = {}
    /\ proxylist_enabled = FALSE
    /\ proxy_auto_change = FALSE
    /\ proxy = None
    /\ gen_left = 0
    /\ script_left = IF priority_mode = "random" THEN MaxRandomAdds
                     ELSE MaxRandomAdds + 1

NextAddTask == setup_queue \/ UserAddTask

SpecAddTask == InitAddTask /\ [][NextAddTask]_vars

(* --------------------------- add_task claims -------------------------- *)

\* C5: a task passed to add_task without a priority gets DEFAULT_TASK_PRIORITY
\* under priority_mode 'const' and a value of RANDOM_TASK_PRIORITY_RANGE (50 to
\* 100, both included) under 'random'; a priority already set is kept.
C5_PriorityAssigned ==
    (last.op = "add_task" /\ last.configured) =>
        LET given == last.template.priority
            got == tasks[last.id].priority
        IN  IF given # None THEN got = given
            ELSE /\ got # None
                 /\ priority_mode = "const" => Val(got) = 100
                 /\ priority_mode = "random" => (50 <= Val(got) /\ Val(got) <= 100)

C5_Witness ==
    /\ last.op = "add_task" /\ last.configured
    /\ last.template.priority = None
    /\ priority_mode = "random"
    /\ tasks[last.id].priority = Some(50)
    /\ taskq[last.id] = 1

\* C7: add_task of a task with a relative url (no http://, https:// or ftp://
\* in front) while base_url is None raises SpiderMisuseError and leaves the
\* queue as it was.
C7_RelativeUrlMisuse ==
    (/\ last.op = "add_task"
     /\ last.template.url.scheme \notin {"http://", "https://", "ftp://"}
     /\ base_url = None) =>
        /\ last.raised = Some("SpiderMisuseError")
        /\ taskq = last.taskq

C7_Witness ==
    /\ last.op = "add_task" /\ last.configured
    /\ last.template.url = RelUrl
    /\ base_url = None
    /\ last.raised = Some("SpiderMisuseError")
    /\ \E i \in Ids : taskq[i] > 0

(* --------------------------- the main loop ---------------------------- *)

\* C1: the stop signal is given exactly by a pass of the task loop that finds
\* the task queue empty while the transport has no active request; when it
\* is given, and when the loop ends on it, both still hold.
C1_StopOnlyWhenIdle ==
    /\ last.op = "fill" =>
          ((pc = "yield" /\ yielded = Some(StopSignal))
              <=> (last.qsize = 0 /\ last.active = 0))
    /\ (pc = "yield" /\ yielded = Some(StopSignal)) =>
          (qsize = 0 /\ active_task_number = 0)
    /\ (last.op = "break" /\ last.why = "stop_signal") =>
          (qsize = 0 /\ active_task_number = 0)

\* a crawl that fetched something and then ended on the stop signal
C1_Witness ==
    /\ pc = "done" /\ last.op = "break" /\ last.why = "stop_signal"
    /\ \E id \in 1..Len(tasks) : hist[id].dispatched > 0

Exceeds(task) ==
    \/ task.task_try_count > task_try_limit
    \/ task.network_try_count > network_try_limit

\* C2: a task that has been limit-checked while one of its counters exceeds
\* its limit is neither in the queue nor in the transport, and its fallback
\* handler has been called once if it has one (and not at all otherwise);
\* the step that makes the check does not dispatch the task.
C2_OverLimitRejected ==
    /\ [](\A id \in 1..Len(tasks) :
             (hist[id].checks > 0 /\ Exceeds(tasks[id])) =>
                /\ taskq[id] = 0
                /\ transport[id] = None
                /\ hist[id].fallback =
                      IF tasks[id].name \in FallbackHandlers THEN 1 ELSE 0)
    /\ [][\A id \in 1..Len(tasks') :
             LET old == IF id <= Len(tasks) THEN hist[id] ELSE NoHist
             IN  Exceeds(tasks'[id]) =>
                    /\ hist'[id].dispatched = old.dispatched
                    /\ hist'[id].checks > old.checks =>
                          hist'[id].fallback = old.fallback +
                             (IF tasks'[id].name \in FallbackHandlers
                              THEN 1 ELSE 0)]_vars

\* a task with a fallback handler that was fetched, retried and then
\* rejected when it was pulled again
C2_Witness ==
    \E id \in 1..Len(tasks) :
        /\ Exceeds(tasks[id]) /\ hist[id].dispatched > 0
        /\ hist[id].fallback = 1 /\ taskq[id] = 0 /\ transport[id] = None

\* C3: a pulled task that passes the limit check, is eligible for the cache
\* and whose url is cached is yielded as a cache result in the same pass; it
\* is not given to the transport and request-network is not counted.
C3_CacheHitBypassesNetwork ==
    (/\ last.op = "fill"
     /\ last.outcome \notin {"not_ready", "empty"}
     /\ ~Exceeds(tasks[last.id]) /\ tasks[last.id].name \notin config
     /\ cache_enabled
     /\ ~tasks[last.id].refresh_cache /\ ~tasks[last.id].disable_cache
     /\ Val(hist[last.id].snapshot).method = "GET"
     /\ Val(hist[last.id].snapshot).url \in cache) =>
        /\ pc = "yield"
        /\ Val(yielded).kind = "result" /\ Val(yielded).task = last.id
        /\ Val(yielded).ok /\ Val(yielded).from = "cache"
        /\ transport[last.id] = None
        /\ hist[last.id].dispatched = last.dispatched
        /\ counters["request-network"] = last.net
        /\ counters["request-cache"] > 0

C3_Witness ==
    /\ last.op = "fill" /\ last.outcome = "cache"
    /\ pc = "yield" /\ transport[last.id] = None

WithoutHeaders(grab_config) == [grab_config EXCEPT !.common_headers = "h0"]

\* C4 as stated: the configuration snapshotted when a retried task is
\* dispatched again equals the snapshot of its previous dispatch.
C4_SnapshotEqual ==
    (/\ last.op = "fill"
     /\ last.outcome \in {"network", "skipped", "cache"}
     /\ last.prev # None) =>
        hist[last.id].snapshot = last.prev

\* C4: the configuration snapshotted when a retried task is dispatched again
\* equals the snapshot of its previous dispatch in every field but
\* common_headers, which are generated anew at each dispatch; what the failed
\* attempt did to its Grab (the proxy set up on it) is not carried over.
C4_SnapshotEqualButHeaders ==
    (/\ last.op = "fill"
     /\ last.outcome \in {"network", "skipped", "cache"}
     /\ last.prev # None) =>
        /\ WithoutHeaders(Val(hist[last.id].snapshot)) = WithoutHeaders(Val(last.prev))
        /\ Val(hist[last.id].snapshot).proxy = Val(last.prev).proxy

\* a retried task dispatched again after an attempt made through a proxy
C4_Witness ==
    /\ last.op = "fill" /\ last.outcome = "network" /\ last.prev # None
    /\ proxylist_enabled
    /\ Val(transport[last.id]).grab.proxy # None
    /\ Val(hist[last.id].snapshot).proxy = None

Accepted(id) ==
    /\ hist[id].checks > 0
    /\ ~Exceeds(tasks[id]) /\ tasks[id].name \notin config

\* C6: a task a handler returns or yields for a successful, status-valid
\* result, and that passes the limit check, is in the task queue when the
\* handler's invocation is over; the stop signal is never given while a
\* task that passed add_task's limit check has not been pulled.
C6_HandlerTaskQueued ==
    /\ last.op = "route" =>
          \A b \in (last.ntasks + 1)..Len(tasks) : Accepted(b) => taskq[b] = 1
    /\ (pc = "yield" /\ yielded = Some(StopSignal)) =>
          \A id \in 1..Len(tasks) : Accepted(id) => hist[id].pulls > 0

\* a handler has returned a task that was accepted and the loop goes on
C6_Witness ==
    /\ last.op = "route" /\ last.ok /\ pc \in {"select", "drain"}
    /\ \E b \in (last.ntasks + 1)..Len(tasks) : Accepted(b) /\ taskq[b] = 1

NonFatal == {"ValueError", "SpiderError", "NameError", "SpiderMisuseError"}

\* C8: when the handler of a result ends with a non-fatal exception, the
\* counter of that kind of error has gone up by exactly one for it (and by
\* one for each data handler error of the same invocation), the fatal item
\* list has grown likewise, run has not ended, and what was in the queue
\* and in the transport is still there.
C8_NonFatalCountedOnce ==
    (/\ last.op = "route"
     /\ last.caught # None
     /\ Val(last.caught) \in NonFatal) =>
        /\ counters[ErrorCounter(Val(last.caught))] =
              last.errors[ErrorCounter(Val(last.caught))] + 1
              + (IF Val(last.caught) = "ValueError" THEN last.inner ELSE 0)
        /\ \A e \in NonFatal \ {Val(last.caught)} :
              counters[ErrorCounter(e)] = last.errors[ErrorCounter(e)]
              + (IF e = "ValueError" THEN last.inner ELSE 0)
        /\ items["fatal"] = last.fatal + 1 + last.inner
        /\ pc \in {"select", "drain"} /\ raised = None /\ shutdown_calls = 0
        /\ \A id \in 1..last.ntasks : taskq[id] >= last.taskq[id]

\* the handler raised while another task was still queued
C8_Witness ==
    /\ last.op = "route" /\ last.caught = Some("ValueError") /\ last.inner = 0
    /\ counters["error-valueerror"] = 1 /\ items["fatal"] = 1
    /\ pc \in {"select", "drain"} /\ qsize > 0

\* C9: a FatalError of a handler ends run, and no other exception raised
\* while a result is processed does.
C9_OnlyFatalStops ==
    /\ (last.op = "route" /\ last.caught = Some("FatalError")) =>
          (pc = "done" /\ raised = Some("FatalError"))
    /\ (last.op = "route" /\ pc = "done" /\ raised # None) =>
          raised = Some("FatalError")

\* C10: shutdown has been called exactly once when run is over, however it
\* ended, and not at all before.
C10_ShutdownOnce ==
    IF pc = "done" THEN shutdown_calls = 1 ELSE shutdown_calls = 0

\* run was ended by an exception and shutdown was called
C10_Witness ==
    /\ pc = "done" /\ shutdown_calls = 1
    /\ raised = Some("FatalError")

(* ------------------------ limits and capacity ------------------------- *)

\* C11: with task_try_limit 0 no task is rejected for its task_try_count, and
\* with network_try_limit 0 none is rejected for its network_try_count.
C11_ZeroDisablesCheck ==
    /\ task_try_limit = 0 => items["too-many-task-tries"] = 0
    /\ network_try_limit = 0 => items["too-many-network-tries"] = 0

\* C12: the transport never holds more fetches than thread_number, and a
\* step hands it at most one task, only when it held fewer than
\* thread_number before.
C12_CapacityRespected ==
    /\ [](active_task_number <= thread_number)
    /\ [][LET new == {i \in Ids : transport[i] = None /\ transport'[i] # None}
          IN  new # {} => /\ Cardinality(new) = 1
                          /\ active_task_number < thread_number]_vars

\* a task waits in the queue because the transport is full
C12_Witness ==
    /\ last.op = "fill" /\ last.outcome = "not_ready"
    /\ active_task_number = thread_number /\ qsize > 0

\* C13: when run leaves its loop on a stop request, no fetch is in flight any
\* more: every fetch given to the transport has completed and been yielded.
C13_StopWaitsForFetches ==
    (pc = "done" /\ last.op = "break" /\ last.why = "should_stop") =>
        active_task_number = 0

(* ------------------------------ the cache ----------------------------- *)

\* C14: a result drained from the transport is saved to the cache exactly if
\* the fetch succeeded, the cache is enabled, the request method was GET,
\* the task does not set disable_cache and the response code is below 400,
\* is 404 or is in task.valid_status; nothing else writes to the cache, a
\* result served from the cache in particular does not.
C14_SavedIffValid ==
    /\ [](last.op = "drain" /\ last.outcome = "result" =>
             (last.saved <=>
                 /\ Val(yielded).ok
                 /\ cache_enabled
                 /\ Val(yielded).grab.method = "GET"
                 /\ ~tasks[last.id].disable_cache
                 /\ \/ Val(yielded).code < 400
                    \/ Val(yielded).code = 404
                    \/ Val(yielded).code \in tasks[last.id].valid_status))
    /\ [][IF last'.op = "drain" /\ last'.outcome = "result" /\ last'.saved
          THEN cache' = cache \cup {tasks[last'.id].url}
          ELSE cache' = cache]_vars

\* a response with a code of task.valid_status was saved, and one that failed
\* was not
C14_Witness ==
    /\ last.op = "drain" /\ last.outcome = "result" /\ last.saved
    /\ Val(yielded).code = 500
    /\ tasks[last.id].url \in cache

\* C15: under only_cache no task is ever given to the transport: nothing is
\* in flight, request-network stays 0, and a pulled task is rejected by the
\* limits, answered from the cache, or skipped without a result.
C15_OnlyCacheNoNetwork ==
    only_cache =>
        /\ active_task_number = 0
        /\ \A id \in 1..Len(tasks) : hist[id].dispatched = 0
        /\ counters["request-network"] = 0
        /\ (last.op = "fill" /\ last.outcome \notin {"not_ready", "empty"}) =>
              \/ ~Accepted(last.id)
              \/ /\ pc = "yield" /\ Val(yielded).from = "cache"
                 /\ Val(yielded).task = last.id
              \/ /\ pc = "select" /\ yielded = None

\* a task whose url is not cached is pulled under only_cache and skipped
C15_Witness ==
    /\ only_cache /\ cache_enabled
    /\ last.op = "fill" /\ last.outcome = "skipped"
    /\ Accepted(last.id) /\ tasks[last.id].url \notin cache

(* ------------------------------ retries ------------------------------- *)

\* the result routed last was a failed fetch or a response with a code that
\* is not valid for its task
FailedResult ==
    /\ last.op = "route"
    /\ ~last.ok \/ ~(\/ last.code < 400
                     \/ last.code = 404
                     \/ last.code \in tasks[last.id].valid_status)
    /\ tasks[last.id].network_try_count <= network_try_limit

Retried ==
    /\ FailedResult
    /\ tasks[last.id].name \in Handlers \cup RawHandlers
    /\ tasks[last.id].name \in RawHandlers => last.go

\* no task is dispatched more than network_try_limit times
DispatchBounded == \A id \in 1..Len(tasks) : hist[id].dispatched <= network_try_limit

\* a pull of a task that has been dispatched network_try_limit times, every
\* earlier pull having reached the transport, is rejected: the task is
\* counted in too-many-network-tries, dropped, and its fallback is called
\* once if it has one; a pull of a retried task that has been dispatched
\* fewer times reaches the transport again (only_cache off)
LimitEndsRetries ==
    (/\ last.op = "fill" /\ last.outcome \notin {"not_ready", "empty"}
     /\ network_try_limit > 0
     /\ tasks[last.id].refresh_cache
     /\ hist[last.id].pulls = last.dispatched + 1) =>
        IF last.dispatched = network_try_limit
        THEN /\ last.outcome = "rejected"
             /\ hist[last.id].dispatched = network_try_limit
             /\ taskq[last.id] = 0 /\ transport[last.id] = None
             /\ items["too-many-network-tries"] > 0
             /\ hist[last.id].fallback =
                    IF tasks[last.id].name \in FallbackHandlers THEN 1 ELSE 0
        ELSE only_cache \/ (/\ last.outcome = "network"
                            /\ hist[last.id].dispatched = last.dispatched + 1)

absolute(url) ==
    \/ startswith(url, "http://")
    \/ startswith(url, "https://")
    \/ startswith(url, "ftp://")

\* C18: in every state every task in the queue has a priority, an absolute
\* url (the join with base_url when it was constructed with a relative one;
\* its grab_config, if any, carries the same url), and the priority the
\* queue was given for it is the task's priority.
C18_QueuedTasksWellFormed ==
    \A id \in 1..Len(tasks) :
        taskq[id] > 0 =>
            /\ tasks[id].priority # None
            /\ absolute(tasks[id].url)
            /\ tasks[id].url \in {AbsUrl, FtpUrl} \/
                   (base_url # None /\ tasks[id].url = urljoin(Val(base_url), RelUrl))
            /\ tasks[id].grab_config # None =>
                   Val(tasks[id].grab_config).url = tasks[id].url
            /\ hist[id].put = tasks[id].priority

\* a queued task that was constructed with a relative url and a priority of
\* its own, next to one that got its priority from the spider
C18_Witness ==
    \E id \in 1..Len(tasks) :
        /\ taskq[id] > 0
        /\ tasks[id].url = urljoin(BaseUrl, RelUrl)
        /\ tasks[id].priority # None
        /\ hist[id].put = tasks[id].priority
        /\ \E other \in 1..Len(tasks) :
               /\ taskq[other] > 0
               /\ hist[other].put # hist[id].put

(* ---------------------------- try counters ---------------------------- *)

\* C19: network_try_count of every task is the number of times it was taken
\* from the queue, whatever the pull ended in; a pulled task has a
\* task_try_count of at least 1; a step changes network_try_count only by
\* adding one at a pull, and changes task_try_count only from 0 to 1 at the
\* first pull of the task.
C19_TryCounters ==
    /\ [](\A id \in 1..Len(tasks) :
             /\ tasks[id].network_try_count = hist[id].pulls
             /\ hist[id].pulls > 0 => tasks[id].task_try_count >= 1)
    /\ [][\A id \in 1..Len(tasks) :
             /\ tasks'[id].network_try_count # tasks[id].network_try_count =>
                   /\ tasks'[id].network_try_count = tasks[id].network_try_count + 1
                   /\ hist'[id].pulls = hist[id].pulls + 1
                   /\ last'.op = "fill" /\ last'.id = id
             /\ tasks'[id].task_try_count # tasks[id].task_try_count =>
                   /\ tasks[id].task_try_count = 0
                   /\ tasks'[id].task_try_count = 1
                   /\ hist[id].pulls = 0 /\ hist'[id].pulls = 1]_vars

\* a task pulled MaxTryLimit + 1 times (dispatched, retried, in the end
\* rejected by the limit check): counted at every pull, task_try_count 1
C19_Witness ==
    /\ last.op = "fill" /\ last.outcome = "rejected"
    /\ hist[last.id].pulls = MaxTryLimit + 1
    /\ tasks[last.id].network_try_count = MaxTryLimit + 1
    /\ tasks[last.id].task_try_count = 1
    /\ hist[last.id].dispatched < hist[last.id].pulls

(* -------------------------- handler results --------------------------- *)

\* the step before ran the handler of a task on a valid response
HandlerRan ==
    /\ last.op = "route" /\ last.path = "handler"
    /\ tasks[last.id].name \in Handlers

\* the handler, or process_handler_result for this element, raises: the
\* handler's own exception, a value of an unknown type (line 513), a Data
\* item without data handler (line 505), a data handler's FatalError re-raised
\* by process_handler_error, a Task that add_task refuses with
\* SpiderMisuseError (line 536)
Raises(e) ==
    \/ e.kind \in {"raise", "other"}
    \/ e.kind = "data" /\ e.name \notin DataHandlers
    \/ e.kind = "data" /\ e.exc = Some("FatalError")
    \/ e.kind = "task" /\ ~absolute(e.template.url) /\ base_url = None

\* the Task elements among the first n events
TaskItems(events, n) == {i \in 1..n : events[i].kind = "task"}

\* C20 as stated: a handler that yields a finite sequence and does not raise
\* has all its elements consumed, whatever their kinds.
C20_FullyConsumed ==
    (HandlerRan /\ \A i \in 1..Len(last.events) : last.events[i].kind # "raise")
        => last.rest = <<>>

\* C20: the elements a handler yields are consumed in order, each passed to
\* process_handler_result, up to and including the first one for which the
\* handler or process_handler_result raises; the elements after that one are
\* never asked for.  When none raises the sequence is consumed whole.  The
\* tasks constructed and the data errors counted are those of the consumed
\* prefix.
C20_ConsumedUntilRaise ==
    HandlerRan =>
        LET events == last.events
            consumed == Len(events) - Len(last.rest)
        IN  /\ last.rest = SubSeq(events, consumed + 1, Len(events))
            /\ \A i \in 1..(consumed - 1) : ~Raises(events[i])
            /\ last.caught = None <=>
                   (consumed = 0 \/ ~Raises(events[consumed]))
            /\ last.caught = None => last.rest = <<>>
            /\ last.caught # None => (consumed >= 1 /\ Raises(events[consumed]))
            /\ Len(tasks) - last.ntasks = Cardinality(TaskItems(events, consumed))
            /\ \A i \in TaskItems(events, consumed) :
                   tasks[last.ntasks + Cardinality(TaskItems(events, i))].name =
                       events[i].template.name
            /\ last.inner = DataErrors(events, consumed)

\* a sequence of MaxItems elements consumed whole, a failing data handler
\* first and a Task that is queued after it
C20_Witness ==
    /\ HandlerRan
    /\ Len(last.events) = MaxItems /\ last.rest = <<>>
    /\ last.events[1].kind = "data" /\ last.events[1].exc = Some("ValueError")
    /\ last.events[MaxItems].kind = "task"
    /\ Len(tasks) = last.ntasks + 1
    /\ taskq[Len(tasks)] = 1
    /\ counters["error-valueerror"] = last.errors["error-valueerror"] + 1

(* ----------------------------- raw handler ---------------------------- *)

\* C21: for a task name with a raw handler, every routed result is first
\* given to the raw handler; when it returns false nothing else is done with
\* the result (the handler is not asked for any of its items, no task is
\* constructed or queued, no error is recorded, run goes on); when it returns
\* true and the result is successful with a valid code, the handler
\* registered for the name runs and its first item is consumed.
C21_RawHandlerVeto ==
    (last.op = "route" /\ tasks[last.id].name \in RawHandlers) =>
        IF ~last.go
        THEN /\ last.path = "vetoed"
             /\ last.rest = last.events
             /\ Len(tasks) = last.ntasks /\ taskq = last.taskq
             /\ items["fatal"] = last.fatal
             /\ \A c \in CounterNames \ {"task", "request"} :
                    counters[c] = last.errors[c]
             /\ raised = None /\ pc \in {"select", "drain"}
        ELSE (/\ last.ok
              /\ valid_response_code(last.code, tasks[last.id])
              /\ tasks[last.id].name \in Handlers) =>
                 /\ last.path = "handler"
                 /\ last.events # <<>> => Len(last.rest) < Len(last.events)

\* the raw handler vetoes a successful result whose handler would have
\* yielded a Task
C21_Witness ==
    /\ last.op = "route" /\ tasks[last.id].name \in RawHandlers \cap Handlers
    /\ ~last.go /\ last.ok /\ last.code = 200
    /\ last.events # <<>> /\ last.events[1].kind = "task"
    /\ last.path = "vetoed" /\ Len(tasks) = last.ntasks

(* ------------------------------ ownership ----------------------------- *)

\* the task whose result run holds between the yield and the end of its
\* routing
InRouting(id) ==
    /\ pc \in {"yield", "route"}
    /\ yielded # None /\ Val(yielded).kind = "result"
    /\ Val(yielded).task = id

\* C22: in every state a task is in the queue at most once, is not in the
\* queue while the transport holds a fetch for it or while run holds its
\* result; a step that puts a task that was pulled before back in the queue is
\* the routing of that task's result, taken when the transport no longer
\* holds it.
C22_OneOwner ==
    /\ [](\A id \in 1..Len(tasks) :
             /\ taskq[id] <= 1
             /\ ~(taskq[id] > 0 /\ transport[id] # None)
             /\ InRouting(id) => (taskq[id] = 0 /\ transport[id] = None))
    /\ [][\A id \in 1..Len(tasks) :
             (taskq'[id] > taskq[id] /\ hist[id].pulls > 0) =>
                 /\ InRouting(id) /\ pc = "route"
                 /\ transport[id] = None /\ transport'[id] = None
                 /\ taskq[id] = 0 /\ taskq'[id] = 1
                 /\ last'.op = "route" /\ last'.id = id /\ last'.path = "retry"]_vars

\* a failed task back in the queue, put there by the retry path, while the
\* transport holds the fetch of another task
C22_Witness ==
    /\ last.op = "route" /\ last.path = "retry"
    /\ taskq[last.id] = 1 /\ transport[last.id] = None
    /\ hist[last.id].dispatched >= 1
    /\ \E other \in 1..Len(tasks) : other # last.id /\ transport[other] # None

(* --------------------------- task generator --------------------------- *)

\* C23: whenever the stop signal is yielded the task generator is disabled
\* (it was skipped, or a call found it exhausted) or holds no more tasks.
C23_NoStopWhileGenerating ==
    (yielded # None /\ Val(yielded).kind = "stop") =>
        (~task_generator_enabled \/ gen_left = 0)

(* ------------------------- results of fetches ------------------------- *)

\* C24: at any time the results yielded for a task are as many as its
\* dispatches, less the one fetch the transport may still hold for it (none
\* is yielded twice, none before its dispatch); when the stop signal is
\* yielded the transport holds nothing, completed or not, and every dispatch
\* of every task has had its result yielded.
C24_OneResultPerDispatch ==
    /\ \A id \in 1..Len(tasks) :
           hist[id].dispatched =
               hist[id].results + (IF transport[id] # None THEN 1 ELSE 0)
    /\ (yielded # None /\ Val(yielded).kind = "stop") =>
           \A id \in 1..Len(tasks) :
               /\ transport[id] = None
               /\ hist[id].results = hist[id].dispatched

\* the stop signal after a task was dispatched MaxTryLimit times and each of
\* the fetches gave its result
C24_Witness ==
    /\ yielded # None /\ Val(yielded).kind = "stop"
    /\ \E id \in 1..Len(tasks) :
           /\ hist[id].dispatched = MaxTryLimit
           /\ hist[id].results = MaxTryLimit

(* ----------------------------- termination --------------------------- *)

\* C25: with both try limits above 0, a finite task generator, handlers that
\* construct finitely many tasks and fetches that complete, run returns in
\* the end; every pull of a task uses up one of its network tries and no
\* task is pulled more than network_try_limit + 1 times, so retries do not
\* keep the loop going; a run that nothing cut short (no stop(), no ^C, no
\* exception) ends on the stop signal.
C25_RunReturns ==
    /\ <>(pc = "done")
    /\ [](\A id \in 1..Len(tasks) :
             /\ hist[id].pulls <= tasks[id].network_try_count
             /\ hist[id].pulls <= network_try_limit + 1)
    /\ [](pc = "done" /\ raised = None /\ ~should_stop =>
             (last.op = "break" /\ last.why = "stop_signal"))

\* run has returned on the stop signal after a task used up its retries
C25_Witness ==
    /\ pc = "done" /\ raised = None
    /\ last.op = "break" /\ last.why = "stop_signal"
    /\ \E id \in 1..Len(tasks) :
           /\ hist[id].pulls = network_try_limit + 1
           /\ hist[id].dispatched = network_try_limit
           /\ network_try_limit = MaxTryLimit
====
